---- MODULE Spec2Model ----
(***************************************************************************)
(* torchlayers.convolution.Conv: a convolution declared without a         *)
(* dimensionality.  The declaration stores its keyword arguments; the     *)
(* first forward call reads the rank of the input, chooses the 1D, 2D or  *)
(* 3D factory, lets Conv._pad turn the padding "same" into a tuple of     *)
(* integers computed from the spatial extents of the input, builds the    *)
(* concrete convolution and forwards every later call to it.              *)
(*                                                                         *)
(* Conv, Conv._dimension_pad, Conv._expand_if_needed and Conv._pad are    *)
(* translated from convolution.py.  The base class InferDimension         *)
(* (_dev_utils.modules) and the torch.nn factories are not part of the    *)
(* file; they are modelled from the specification's sections 3, 4.1, 6    *)
(* and 7.                                                                  *)
(***************************************************************************)
EXTENDS Integers, Sequences, FiniteSets, TLC

VARIABLES
    kwargs,             \* the declaration's stored keyword arguments
    resolved_instance,  \* the concrete operator, or None
    factory_log,        \* every invocation of a factory: <<class, kwargs>>
    hook_calls,         \* invocations of the construction hook
    rank_checks,        \* lookups of a rank in the factory mapping
    inputs,             \* shape of the input of the last forward call
    outcome,            \* how the last forward call ended
    path,               \* which branch the last forward call took
    n_calls,            \* forward calls made so far
    ranks_seen,         \* ranks of the inputs of all forward calls so far
    first_ok_rank,      \* rank of the first forward call that succeeded, or 0
    pad_args,           \* arguments of a call of Conv._pad on its own
    pad_result,         \* what that call returned or raised
    dim_args,           \* arguments of a call of Conv._dimension_pad on its own
    dim_result,         \* what that call returned or raised
    poly_modules,       \* MPoly: the modules it was constructed with
    poly_inputs,        \* MPoly: the tensor handed to forward
    poly_result,        \* MPoly: what forward returned or raised
    pc,                 \* concurrent forward calls: where each one stands
    t_inputs,           \* concurrent forward calls: shape of each one's input
    t_saw_absent,       \* whether the call found the declaration without delegate
    t_built,            \* the operator the call's hook returned, or None
    t_target,           \* the delegate the call forwarded its input to, or None
    t_outcome,          \* how the call ended
    n_stores            \* assignments of resolved_instance so far

vars == <<kwargs, resolved_instance, factory_log, hook_calls, rank_checks,
          inputs, outcome, path, n_calls, ranks_seen, first_ok_rank,
          pad_args, pad_result, dim_args, dim_result,
          poly_modules, poly_inputs, poly_result,
          pc, t_inputs, t_saw_absent, t_built, t_target, t_outcome, n_stores>>

wrapper_vars == <<kwargs, resolved_instance, factory_log, hook_calls,
                  rank_checks, inputs, outcome, path, n_calls, ranks_seen,
                  first_ok_rank>>

resolver_vars == <<pad_args, pad_result, dim_args, dim_result>>

poly_vars == <<poly_modules, poly_inputs, poly_result>>

race_vars == <<pc, t_inputs, t_saw_absent, t_built, t_target, t_outcome, n_stores>>

-----------------------------------------------------------------------------
(* Bounds of the exploration.                                              *)

\* forward calls made on one declaration
MaxCalls == 2
\* extent of every spatial axis of the input of a forward call: 1..MaxExtent
MaxExtent == 1
\* extent of every spatial axis in the calls of _pad on its own
MaxPadExtent == 2
\* kernel_size, stride and dilation entries of a declaration: 1..MaxParam
MaxParam == 3
\* entries of all sequence-valued kernel_size, stride, dilation together,
\* in the calls of _pad on its own
MaxTupleEntries == 2
\* calls of _dimension_pad on its own: dimension, kernel_size, stride, dilation
MaxDimension == 10
MaxKernelSize == 7
MaxStride == 3
MaxDilation == 3
\* MPoly: number of modules, their weights and biases, and the tensors
MaxModules == 3
MaxWeight == 1
MaxBias == 1
MaxElement == 1
TensorSize == 2
\* forward calls in flight on one declaration at the same time
MaxThreads == 2

-----------------------------------------------------------------------------
(* Python values.  An int, a tuple of ints or a str, told apart by tag as  *)
(* isinstance tells them apart.                                            *)

PyInt(v) == [tag |-> "int", ints |-> <<v>>, text |-> ""]
PyTuple(t) == [tag |-> "tuple", ints |-> t, text |-> ""]
PyStr(s) == [tag |-> "str", ints |-> <<>>, text |-> s]

\* isinstance(argument, collections.abc.Iterable)
IsIterable(argument) == argument.tag \in {"tuple", "str"}

\* str.lower() on the padding strings a declaration may carry
Lower(s) ==
    CASE s = "SAME" -> "same"
      [] s = "Same" -> "same"
      [] s = "VALID" -> "valid"
      [] OTHER -> s

\* What a call gives back: a value, or an exception that was raised.
NoError == [type |-> "", message |-> <<>>]
Return(v) == [raised |-> FALSE, value |-> v, error |-> NoError]
Raise(type, message) ==
    [raised |-> TRUE, value |-> 0, error |-> [type |-> type, message |-> message]]

\* The message of the ValueError of _dimension_pad, word by word.
OddKernelMessage ==
    <<"Only", "odd", "kernel", "size", "for", "padding", "\"same\"",
      "is", "currently", "supported.">>

\* math.ceil(x / 2)
CeilHalf(x) == IF x % 2 = 0 THEN x \div 2 ELSE x \div 2 + 1

Min(S) == CHOOSE x \in S : \A y \in S : x <= y

-----------------------------------------------------------------------------
(* Conv: the padding resolver.                                             *)

\* _dimension_pad leaving the dilation out of the kernel's reach.
_dimension_pad_no_dilation(dimension, kernel_size, stride, dilation) ==
    IF kernel_size % 2 = 0
    THEN Raise("ValueError", OddKernelMessage)
    ELSE Return(CeilHalf(dimension * stride - dimension + (kernel_size - 1)))

\* _dimension_pad with the padding of stride 1 at every stride.
_dimension_pad_stride1(dimension, kernel_size, stride, dilation) ==
    IF kernel_size % 2 = 0
    THEN Raise("ValueError", OddKernelMessage)
    ELSE Return(CeilHalf(dilation * (kernel_size - 1)))

\* _dimension_pad without the check of the kernel size.
_dimension_pad_unchecked(dimension, kernel_size, stride, dilation) ==
    Return(CeilHalf(dimension * stride - dimension
                    + dilation * (kernel_size - 1)))

\* _dimension_pad halving with the integer division, which rounds down.
_dimension_pad_floor(dimension, kernel_size, stride, dilation) ==
    IF kernel_size % 2 = 0
    THEN Raise("ValueError", OddKernelMessage)
    ELSE Return((dimension * stride - dimension
                 + dilation * (kernel_size - 1)) \div 2)

\* Conv._dimension_pad
_dimension_pad(dimension, kernel_size, stride, dilation) ==
    IF kernel_size % 2 = 0
    THEN Raise("ValueError", OddKernelMessage)
    ELSE Return(CeilHalf(dimension * stride - dimension
                         + dilation * (kernel_size - 1)))

\* _expand_if_needed wrapping a scalar in a tuple of one entry.
_expand_no_repeat(dimensions, argument) ==
    IF IsIterable(argument) THEN argument.ints ELSE <<argument.ints[1]>>

\* _expand_if_needed repeating a scalar one time too few.
_expand_short(dimensions, argument) ==
    IF IsIterable(argument)
    THEN argument.ints
    ELSE [i \in 1..(Len(dimensions) - 1) |-> argument.ints[1]]

\* _expand_if_needed recycling a sequence that has fewer entries than there
\* are spatial axes.
_expand_recycling(dimensions, argument) ==
    IF IsIterable(argument)
    THEN IF Len(argument.ints) >= Len(dimensions) \/ Len(argument.ints) = 0
         THEN argument.ints
         ELSE [i \in 1..Len(dimensions) |->
                  argument.ints[((i - 1) % Len(argument.ints)) + 1]]
    ELSE [i \in 1..Len(dimensions) |-> argument.ints[1]]

\* Conv._expand_if_needed: an iterable as it is, a scalar repeated
\* len(dimensions) times.
_expand_if_needed(dimensions, argument) ==
    IF IsIterable(argument)
    THEN argument.ints
    ELSE [i \in 1..Len(dimensions) |-> argument.ints[1]]

\* zip(dimensions, kernel_size, stride, dilation): as many quadruples as the
\* shortest of the four has entries.
Zip(dimensions, kernel_size, stride, dilation) ==
    LET n == Min({Len(dimensions), Len(kernel_size), Len(stride), Len(dilation)})
    IN  [i \in 1..n |-> <<dimensions[i], kernel_size[i], stride[i], dilation[i]>>]

\* tuple(cls._dimension_pad(...) for ... in zip(...)): the generator is
\* consumed in order and the first exception ends it.
RECURSIVE PaddingsFrom(_, _, _)
PaddingsFrom(zipped, i, done) ==
    IF i > Len(zipped)
    THEN Return(done)
    ELSE LET q == zipped[i]
             p == _dimension_pad(q[1], q[2], q[3], q[4])
         IN  IF p.raised
             THEN [raised |-> TRUE, value |-> <<>>, error |-> p.error]
             ELSE PaddingsFrom(zipped, i + 1, Append(done, p.value))

\* inputs.shape[2:]
Spatial(shape) == SubSeq(shape, 3, Len(shape))

None == [class |-> 0, kwargs |-> <<>>]
NoOutcome == [type |-> "none", message |-> <<>>]

\* torch.nn.Conv1d, Conv2d, Conv3d (inner_class = 1, 2, 3): the factory
\* rejects channel counts the groups do not divide, and otherwise builds
\* the operator of its dimensionality from the kwargs it was handed.
InnerClass(inner_class, kw) ==
    IF kw.in_channels % kw.groups # 0 \/ kw.out_channels % kw.groups # 0
    THEN [raised |-> TRUE, value |-> None,
          error |-> [type |-> "InvalidConfigurationError",
                     message |-> <<"groups">>]]
    ELSE [raised |-> FALSE, value |-> [class |-> inner_class, kwargs |-> kw],
          error |-> NoError]

\* The padding of every spatial axis the pairing reaches, or the first
\* exception: lines 115 to 125 of _pad.
SamePaddings(shape, kw) ==
    LET dimensions == Spatial(shape)
    IN  PaddingsFrom(Zip(dimensions,
                         _expand_if_needed(dimensions, kw.kernel_size),
                         _expand_if_needed(dimensions, kw.stride),
                         _expand_if_needed(dimensions, kw.dilation)),
                     1, <<>>)

\* inner_class(**kwargs), and the record of the invocation.
FactoryCall(inner_class, passed) ==
    [result |-> InnerClass(inner_class, passed),
     invoked |-> <<[class |-> inner_class, kwargs |-> passed]>>]

\* An exception leaving _pad before any factory was invoked.
Propagate(error) ==
    [result |-> [raised |-> TRUE, value |-> None, error |-> error],
     invoked |-> <<>>]

\* _pad building the operator twice: once to validate the kwargs, once to
\* return it.
_pad_twice(shape, inner_class, kw) ==
    LET once(passed) == FactoryCall(inner_class, passed)
        twice(passed) == [once(passed) EXCEPT
                            !.invoked = once(passed).invoked \o once(passed).invoked]
    IN  IF kw.padding.tag = "str" /\ Lower(kw.padding.text) = "same"
        THEN LET paddings == SamePaddings(shape, kw)
             IN  IF paddings.raised
                 THEN Propagate(paddings.error)
                 ELSE twice([kw EXCEPT !.padding = PyTuple(paddings.value)])
        ELSE twice(kw)

\* _pad falling back to no padding when the kernel size is even.
_pad_fallback(shape, inner_class, kw) ==
    IF kw.padding.tag = "str" /\ Lower(kw.padding.text) = "same"
    THEN LET paddings == SamePaddings(shape, kw)
         IN  IF paddings.raised
             THEN FactoryCall(inner_class, [kw EXCEPT !.padding = PyInt(0)])
             ELSE FactoryCall(inner_class,
                      [kw EXCEPT !.padding = PyTuple(paddings.value)])
    ELSE FactoryCall(inner_class, kw)

\* _pad storing the expanded kernel size in the kwargs next to the padding.
_pad_expanding_kernel(shape, inner_class, kw) ==
    IF kw.padding.tag = "str" /\ Lower(kw.padding.text) = "same"
    THEN LET paddings == SamePaddings(shape, kw)
         IN  IF paddings.raised
             THEN Propagate(paddings.error)
             ELSE FactoryCall(inner_class,
                      [kw EXCEPT !.padding = PyTuple(paddings.value),
                                 !.kernel_size = PyTuple(
                                     _expand_if_needed(Spatial(shape),
                                                       kw.kernel_size))])
    ELSE FactoryCall(inner_class, kw)

\* Conv._pad: with padding "same" (in any case) the padding handed to the
\* factory is the tuple computed from the spatial extents of the input;
\* otherwise the kwargs go to the factory as they are.  kwargs is the
\* call's own dict (**kwargs), so the declaration's stored kwargs are not
\* touched.  The result carries the factory invocations the call made.
_pad(shape, inner_class, kw) ==
    IF kw.padding.tag = "str" /\ Lower(kw.padding.text) = "same"
    THEN LET paddings == SamePaddings(shape, kw)
         IN  IF paddings.raised
             THEN Propagate(paddings.error)
             ELSE FactoryCall(inner_class,
                      [kw EXCEPT !.padding = PyTuple(paddings.value)])
    ELSE FactoryCall(inner_class, kw)

-----------------------------------------------------------------------------
(* The declaration.                                                        *)

\* The mapping counting the channel axis as a spatial one.
constructor_for_dimension_channels == [rank \in {3, 4, 5} |-> rank - 1]

\* The mapping taking every rank from 5 up as 3D.
constructor_for_dimension_open ==
    [rank \in {3, 4, 5, 6} |-> IF rank >= 5 THEN 3 ELSE rank - 2]

\* Conv: 1D, 2D or 3D convolution for inputs of 3, 4 or 5 axes.
constructor_for_dimension == [rank \in {3, 4, 5} |-> rank - 2]

\* Conv.__init__: the keyword arguments handed to the base class.
ConvInit(in_channels, out_channels, kernel_size, stride, padding, dilation, groups, bias, padding_mode) ==
    [in_channels |-> in_channels, out_channels |-> out_channels,
     kernel_size |-> kernel_size, stride |-> stride, padding |-> padding,
     dilation |-> dilation, groups |-> groups, bias |-> bias,
     padding_mode |-> padding_mode]

\* The declaration left with the default hook, which hands the stored
\* kwargs to the factory as they are.
instance_creator_default(shape, inner_class, kw) == FactoryCall(inner_class, kw)

\* Conv.__init__: instance_creator=Conv._pad
instance_creator(shape, inner_class, kw) == _pad(shape, inner_class, kw)

\* kernel_size, stride or dilation: a scalar (len = 0) or a tuple of len entries
ParamValues(len) ==
    IF len = 0
    THEN {PyInt(v) : v \in 1..MaxParam}
    ELSE {PyTuple(t) : t \in [1..len -> 1..MaxParam]}

PaddingValues ==
    {PyStr("same"), PyStr("SAME"), PyStr("valid"), PyInt(1), PyTuple(<<1, 1>>)}

\* Input shapes of m spatial axes: a batch of 2, 3 channels, m extents.
ShapesOf(m, extent) == {<<2, 3>> \o s : s \in [1..m -> 1..extent]}

NoPadArgs == [shape |-> <<>>, inner_class |-> 0, kwargs |-> <<>>]
NoDimArgs == [dimension |-> 0, kernel_size |-> 0, stride |-> 0, dilation |-> 0]
Pending == [type |-> "pending", message |-> <<>>]
PadPending ==
    [result |-> [raised |-> FALSE, value |-> None, error |-> Pending],
     invoked |-> <<>>]
DimPending == [raised |-> FALSE, value |-> 0, error |-> Pending]

ResolverIdle ==
    /\ pad_args = NoPadArgs
    /\ pad_result = PadPending
    /\ dim_args = NoDimArgs
    /\ dim_result = DimPending

\* MPoly: a tensor none was given for, a forward call not yet made.
NoTensor == <<>>
PolyPending == [raised |-> FALSE, value |-> NoTensor, error |-> Pending]

PolyIdle ==
    /\ poly_modules = <<>>
    /\ poly_inputs = NoTensor
    /\ poly_result = PolyPending

Threads == 1..MaxThreads

\* No forward call in flight.
RaceIdle ==
    /\ pc = [t \in Threads |-> "idle"]
    /\ t_inputs = [t \in Threads |-> <<>>]
    /\ t_saw_absent = [t \in Threads |-> FALSE]
    /\ t_built = [t \in Threads |-> None]
    /\ t_target = [t \in Threads |-> None]
    /\ t_outcome = [t \in Threads |-> NoOutcome]
    /\ n_stores = 0

WrapperIdle ==
    /\ resolved_instance = None
    /\ factory_log = <<>>
    /\ hook_calls = 0
    /\ rank_checks = 0
    /\ inputs = <<>>
    /\ outcome = NoOutcome
    /\ path = "none"
    /\ n_calls = 0
    /\ ranks_seen = {}
    /\ first_ok_rank = 0

\* A declaration with scalar kernel_size, stride and dilation, not yet called.
Init ==
    /\ \E kernel_size \in ParamValues(0), stride \in ParamValues(0),
          dilation \in ParamValues(0), padding \in PaddingValues,
          groups \in {1, 2} :
            kwargs = ConvInit(3, 8, kernel_size, stride, padding, dilation,
                              groups, TRUE, "zeros")
    /\ WrapperIdle
    /\ ResolverIdle
    /\ PolyIdle
    /\ RaceIdle

\* The stored delegate applied to an input: the tensor runtime rejects an
\* input whose rank is not the one the operator was built for.
Delegate(instance, shape) ==
    IF Len(shape) - 2 = instance.class
    THEN Return(0)
    ELSE Raise("RuntimeError", <<"shape", "mismatch">>)

\* InferDimension.forward, first invocation: rank lookup, construction
\* hook, store the delegate, forward the input to it.
Specialize(shape) ==
    LET rank == Len(shape)
    IN  /\ resolved_instance = None
        /\ path' = "specialize"
        /\ rank_checks' = rank_checks + 1
        /\ IF rank \notin DOMAIN constructor_for_dimension
           THEN /\ outcome' = [type |-> "UnsupportedRankError",
                               message |-> <<"rank", ToString(rank)>>]
                /\ UNCHANGED <<resolved_instance, factory_log, hook_calls,
                               first_ok_rank>>
           ELSE LET built == instance_creator(shape,
                                 constructor_for_dimension[rank], kwargs)
                IN  /\ hook_calls' = hook_calls + 1
                    /\ factory_log' = factory_log \o built.invoked
                    /\ IF built.result.raised
                       THEN /\ outcome' = built.result.error
                            /\ UNCHANGED <<resolved_instance, first_ok_rank>>
                       ELSE /\ resolved_instance' = built.result.value
                            /\ outcome' =
                                 Delegate(built.result.value, shape).error
                            /\ first_ok_rank' =
                                 IF first_ok_rank = 0 THEN rank
                                 ELSE first_ok_rank

\* InferDimension.forward, later invocations: straight to the delegate.
Delegated(shape) ==
    /\ resolved_instance # None
    /\ path' = "delegate"
    /\ outcome' = Delegate(resolved_instance, shape).error
    /\ first_ok_rank' =
         IF first_ok_rank = 0 /\ ~Delegate(resolved_instance, shape).raised
         THEN Len(shape) ELSE first_ok_rank
    /\ UNCHANGED <<resolved_instance, factory_log, hook_calls, rank_checks>>

\* One forward call on the declaration, with an input of rank 2 to 6: the
\* three supported ranks, one below and one above.
Forward ==
    /\ n_calls < MaxCalls
    /\ \E m \in 0..4 : \E shape \in ShapesOf(m, MaxExtent) :
         /\ inputs' = shape
         /\ n_calls' = n_calls + 1
         /\ ranks_seen' = ranks_seen \cup {Len(shape)}
         /\ \/ Specialize(shape)
            \/ Delegated(shape)
    /\ UNCHANGED <<kwargs, pad_args, pad_result, dim_args, dim_result>>
    /\ UNCHANGED <<poly_vars, race_vars>>

Next == Forward

Spec == Init /\ [][Next]_vars

-----------------------------------------------------------------------------
(* The resolver on its own: Conv._pad and Conv._dimension_pad called once  *)
(* with arguments drawn from bounded sets.                                 *)

TupleLens ==
    {l \in [1..3 -> 0..MaxTupleEntries] : l[1] + l[2] + l[3] <= MaxTupleEntries}

\* A call of _pad as the base class makes it: an input of a supported rank,
\* the factory of that rank, the kwargs of a declaration.
PadArgs(shape, kw) ==
    [shape |-> shape, inner_class |-> constructor_for_dimension[Len(shape)],
     kwargs |-> kw]

DimArgs(dimension, kernel_size, stride, dilation) ==
    [dimension |-> dimension, kernel_size |-> kernel_size, stride |-> stride,
     dilation |-> dilation]

PadInit ==
    /\ kwargs = ConvInit(3, 8, PyInt(3), PyInt(1), PyStr("same"), PyInt(1),
                          1, TRUE, "zeros")
    /\ WrapperIdle
    /\ PolyIdle
    /\ RaceIdle
    /\ pad_result = PadPending
    /\ dim_result = DimPending
    /\ \/ /\ dim_args = NoDimArgs
          /\ \E l \in TupleLens, m \in 1..3 :
             \E kernel_size \in ParamValues(l[1]), stride \in ParamValues(l[2]),
                dilation \in ParamValues(l[3]), padding \in PaddingValues,
                shape \in ShapesOf(m, MaxPadExtent) :
                  pad_args = PadArgs(shape,
                      ConvInit(3, 8, kernel_size, stride, padding, dilation,
                               1, TRUE, "zeros"))
       \/ /\ pad_args = NoPadArgs
          /\ \E dimension \in 1..MaxDimension, kernel_size \in 1..MaxKernelSize,
                stride \in 1..MaxStride, dilation \in 1..MaxDilation :
                  dim_args = DimArgs(dimension, kernel_size, stride, dilation)

PadCall ==
    /\ pad_args # NoPadArgs
    /\ pad_result = PadPending
    /\ pad_result' = _pad(pad_args.shape, pad_args.inner_class, pad_args.kwargs)
    /\ UNCHANGED <<pad_args, dim_args, dim_result>>
    /\ UNCHANGED <<wrapper_vars, poly_vars, race_vars>>

DimensionPadCall ==
    /\ dim_args # NoDimArgs
    /\ dim_result = DimPending
    /\ dim_result' = _dimension_pad(dim_args.dimension, dim_args.kernel_size,
                                    dim_args.stride, dim_args.dilation)
    /\ UNCHANGED <<pad_args, pad_result, dim_args>>
    /\ UNCHANGED <<wrapper_vars, poly_vars, race_vars>>

PadNext == PadCall \/ DimensionPadCall

PadSpec == PadInit /\ [][PadNext]_vars

-----------------------------------------------------------------------------
(* MPoly: modules applied one after the other, the input and every        *)
(* intermediate output summed.  A tensor is a sequence of TensorSize      *)
(* integers; a module keeps the shape of its input and maps every element *)
(* x to weight * x + bias.                                                 *)

Tensors == [1..TensorSize -> 0..MaxElement]
Modules == [weight : 0..MaxWeight, bias : 0..MaxBias]

\* module(inputs)
Apply(module, tensor) ==
    [i \in DOMAIN tensor |-> module.weight * tensor[i] + module.bias]

PolyReturn(tensor) == [raised |-> FALSE, value |-> tensor, error |-> NoError]
PolyRaise(type, message) ==
    [raised |-> TRUE, value |-> NoTensor,
     error |-> [type |-> type, message |-> message]]

\* torch.nn.ModuleList.__getitem__ with an index the list does not have.
IndexErrorMessage(i) == <<"index", ToString(i), "is", "out", "of", "range">>

\* for module in self.poly_modules[1:]: outputs.append(module(outputs[-1]))
RECURSIVE AppendOutputs(_, _, _)
AppendOutputs(modules, i, outputs) ==
    IF i > Len(modules)
    THEN outputs
    ELSE AppendOutputs(modules, i + 1,
             Append(outputs, Apply(modules[i], outputs[Len(outputs)])))

\* torch.stack(tensors, dim=0).sum(dim=0)
RECURSIVE StackSum(_)
StackSum(tensors) ==
    IF Len(tensors) = 1
    THEN tensors[1]
    ELSE LET rest == StackSum(Tail(tensors))
         IN  [i \in DOMAIN tensors[1] |-> tensors[1][i] + rest[i]]

\* MPoly.forward: self.poly_modules[0] is evaluated first, whatever the
\* number of modules.
MPoly_forward(modules, tensor) ==
    IF Len(modules) = 0
    THEN PolyRaise("IndexError", IndexErrorMessage(0))
    ELSE LET outputs == AppendOutputs(modules, 2,
                            <<Apply(modules[1], tensor)>>)
         IN  PolyReturn(StackSum(<<tensor>> \o outputs))

\* MPoly(*poly_modules) for up to MaxModules modules, and a tensor to call
\* it on.
PolyInit ==
    /\ kwargs = ConvInit(3, 8, PyInt(3), PyInt(1), PyStr("same"), PyInt(1),
                          1, TRUE, "zeros")
    /\ WrapperIdle
    /\ ResolverIdle
    /\ RaceIdle
    /\ \E n \in 0..MaxModules : \E modules \in [1..n -> Modules] :
          poly_modules = modules
    /\ poly_inputs \in Tensors
    /\ poly_result = PolyPending

MPolyCall ==
    /\ poly_result = PolyPending
    /\ poly_result' = MPoly_forward(poly_modules, poly_inputs)
    /\ UNCHANGED <<poly_modules, poly_inputs>>
    /\ UNCHANGED <<wrapper_vars, resolver_vars, race_vars>>

PolyNext == MPolyCall

PolySpec == PolyInit /\ [][PolyNext]_vars

-----------------------------------------------------------------------------
(* Forward calls in flight at the same time on one declaration.  Each     *)
(* call goes through the steps of the first invocation one at a time:     *)
(* it reads the delegate, looks the rank up, runs the construction hook,  *)
(* stores the operator the hook returned and forwards its input.  Nothing *)
(* keeps another call from taking steps in between.                        *)

\* The inputs of the calls: ranks 2, 3 and 4, every spatial extent 1.
RaceShape(m) == <<2, 3>> \o [i \in 1..m |-> 1]

RaceInit ==
    /\ \E kernel_size \in ParamValues(0), groups \in {1, 2},
          padding \in {PyStr("same"), PyStr("valid")} :
            kwargs = ConvInit(3, 8, kernel_size, PyInt(1), padding, PyInt(1),
                              groups, TRUE, "zeros")
    /\ WrapperIdle
    /\ ResolverIdle
    /\ PolyIdle
    /\ pc = [t \in Threads |-> "check"]
    /\ \E m \in [Threads -> 0..2] :
          t_inputs = [t \in Threads |-> RaceShape(m[t])]
    /\ t_saw_absent = [t \in Threads |-> FALSE]
    /\ t_built = [t \in Threads |-> None]
    /\ t_target = [t \in Threads |-> None]
    /\ t_outcome = [t \in Threads |-> NoOutcome]
    /\ n_stores = 0

\* The call reads the delegate: present, it goes straight to forwarding.
Check(t) ==
    /\ pc[t] = "check"
    /\ IF resolved_instance = None
       THEN /\ pc' = [pc EXCEPT ![t] = "lookup"]
            /\ t_saw_absent' = [t_saw_absent EXCEPT ![t] = TRUE]
       ELSE /\ pc' = [pc EXCEPT ![t] = "forward"]
            /\ UNCHANGED t_saw_absent
    /\ UNCHANGED <<wrapper_vars, resolver_vars, poly_vars>>
    /\ UNCHANGED <<t_inputs, t_built, t_target, t_outcome, n_stores>>

\* Steps 1 and 2: the rank of the input is looked up in the mapping.
Lookup(t) ==
    LET rank == Len(t_inputs[t])
    IN  /\ pc[t] = "lookup"
        /\ rank_checks' = rank_checks + 1
        /\ IF rank \notin DOMAIN constructor_for_dimension
           THEN /\ t_outcome' = [t_outcome EXCEPT ![t] =
                                   [type |-> "UnsupportedRankError",
                                    message |-> <<"rank", ToString(rank)>>]]
                /\ pc' = [pc EXCEPT ![t] = "done"]
           ELSE /\ pc' = [pc EXCEPT ![t] = "hook"]
                /\ UNCHANGED t_outcome
        /\ UNCHANGED <<kwargs, resolved_instance, factory_log, hook_calls,
                       inputs, outcome, path, n_calls, ranks_seen,
                       first_ok_rank>>
        /\ UNCHANGED <<resolver_vars, poly_vars>>
        /\ UNCHANGED <<t_inputs, t_saw_absent, t_built, t_target, n_stores>>

\* Step 3: the construction hook builds the operator, or raises.
Hook(t) ==
    LET shape == t_inputs[t]
        built == instance_creator(shape,
                     constructor_for_dimension[Len(shape)], kwargs)
    IN  /\ pc[t] = "hook"
        /\ hook_calls' = hook_calls + 1
        /\ factory_log' = factory_log \o built.invoked
        /\ IF built.result.raised
           THEN /\ t_outcome' = [t_outcome EXCEPT ![t] = built.result.error]
                /\ pc' = [pc EXCEPT ![t] = "done"]
                /\ UNCHANGED t_built
           ELSE /\ t_built' = [t_built EXCEPT ![t] = built.result.value]
                /\ pc' = [pc EXCEPT ![t] = "store"]
                /\ UNCHANGED t_outcome
        /\ UNCHANGED <<kwargs, resolved_instance, rank_checks, inputs, outcome,
                       path, n_calls, ranks_seen, first_ok_rank>>
        /\ UNCHANGED <<resolver_vars, poly_vars>>
        /\ UNCHANGED <<t_inputs, t_saw_absent, t_target, n_stores>>

\* Step 4: the operator is stored as the delegate, over whatever is there.
Store(t) ==
    /\ pc[t] = "store"
    /\ resolved_instance' = t_built[t]
    /\ n_stores' = n_stores + 1
    /\ pc' = [pc EXCEPT ![t] = "forward"]
    /\ UNCHANGED <<kwargs, factory_log, hook_calls, rank_checks, inputs,
                   outcome, path, n_calls, ranks_seen, first_ok_rank>>
    /\ UNCHANGED <<resolver_vars, poly_vars>>
    /\ UNCHANGED <<t_inputs, t_saw_absent, t_built, t_target, t_outcome>>

\* Step 5, and every later call: the input goes to the delegate, the one
\* the call built itself or the one that is stored by then.
ForwardTo(t) ==
    /\ pc[t] = "forward"
    /\ \E own \in BOOLEAN :
         LET delegate == IF own /\ t_built[t] # None
                         THEN t_built[t] ELSE resolved_instance
         IN  /\ t_target' = [t_target EXCEPT ![t] = delegate]
             /\ t_outcome' = [t_outcome EXCEPT ![t] =
                                Delegate(delegate, t_inputs[t]).error]
    /\ pc' = [pc EXCEPT ![t] = "done"]
    /\ UNCHANGED <<wrapper_vars, resolver_vars, poly_vars>>
    /\ UNCHANGED <<t_inputs, t_saw_absent, t_built, n_stores>>

RaceNext ==
    \E t \in Threads :
        Check(t) \/ Lookup(t) \/ Hook(t) \/ Store(t) \/ ForwardTo(t)

RaceSpec == RaceInit /\ [][RaceNext]_vars

-----------------------------------------------------------------------------
(* Claims about the declaration (specification Spec).                      *)

SupportedRanks == {3, 4, 5}
IsSame(padding) ==
    padding.tag = "str" /\ padding.text \in {"same", "SAME", "Same"}
SameRankCalls ==
    /\ n_calls >= 2
    /\ \E rank \in SupportedRanks : ranks_seen = {rank}

\* C1 as stated: after two or more forward calls whose inputs all have the
\* same supported rank, the factory and the construction hook have been
\* invoked exactly once, whatever the declaration.
C1_Original ==
    SameRankCalls => Len(factory_log) = 1 /\ hook_calls = 1

\* C1, amended: after two or more forward calls whose inputs all have the
\* same supported rank and on which a delegate got built, the factory and
\* the construction hook have been invoked exactly once and the rank was
\* looked up once, all on the first call; the later calls went straight to
\* the stored delegate.
C1_SingleSpecialization ==
    (SameRankCalls /\ resolved_instance # None) =>
        /\ Len(factory_log) = 1
        /\ hook_calls = 1
        /\ rank_checks = 1
        /\ path = "delegate"
        /\ outcome = NoError

C1_Witness ==
    /\ n_calls = 2
    /\ ranks_seen = {4}
    /\ resolved_instance # None
    /\ Len(factory_log) = 1
    /\ hook_calls = 1
    /\ path = "delegate"

\* C2: resolved_instance goes from absent to present at most once and is
\* never reassigned; once present, it is the operator of the rank of the
\* first forward call that succeeded, also after calls of another rank.
C2_ResolveOnce ==
    /\ [](resolved_instance # None =>
            /\ first_ok_rank \in SupportedRanks
            /\ resolved_instance.class = first_ok_rank - 2)
    /\ [][resolved_instance # None => resolved_instance' = resolved_instance]_vars

C2_Witness ==
    /\ resolved_instance # None
    /\ resolved_instance.class = 2
    /\ first_ok_rank = 4
    /\ path = "delegate"
    /\ Len(inputs) = 5

\* C3: on a first forward call (one that finds no delegate) an input of rank
\* 3, 4 or 5 selects the 1D, 2D or 3D factory and no other, and an input of
\* any other rank fails with UnsupportedRankError without invoking the hook
\* or a factory.
C3_RankDispatch ==
    [][path' = "specialize" /\ n_calls' = n_calls + 1 =>
        LET rank == Len(inputs')
            invoked == SubSeq(factory_log', Len(factory_log) + 1,
                              Len(factory_log'))
            nd == CASE rank = 3 -> 1 [] rank = 4 -> 2 [] rank = 5 -> 3
                    [] OTHER -> 0
        IN  IF nd # 0
            THEN /\ outcome'.type # "UnsupportedRankError"
                 /\ hook_calls' = hook_calls + 1
                 /\ \A i \in DOMAIN invoked : invoked[i].class = nd
                 /\ outcome' = NoError =>
                      /\ Len(invoked) = 1
                      /\ resolved_instance'.class = nd
            ELSE /\ outcome'.type = "UnsupportedRankError"
                 /\ invoked = <<>>
                 /\ hook_calls' = hook_calls
                 /\ resolved_instance' = None]_vars

C3_Witness ==
    /\ path = "specialize"
    /\ Len(inputs) = 5
    /\ outcome = NoError
    /\ resolved_instance.class = 3
    /\ factory_log[Len(factory_log)].class = 3

\* C10: a first forward call that fails during specialization (unsupported
\* rank, even kernel under "same" padding, or the factory rejecting the
\* kwargs) hands its caller the error as it was raised and leaves the
\* declaration without a delegate and with its stored kwargs as they were;
\* the rank is looked up once, the hook runs at most once and a factory is
\* invoked at most once in the call.
C10_NoPartialConstruction ==
    [][path' = "specialize" /\ n_calls' = n_calls + 1 =>
        LET rank == Len(inputs')
            invoked == SubSeq(factory_log', Len(factory_log) + 1,
                              Len(factory_log'))
            even_kernel == IsSame(kwargs.padding)
                           /\ kwargs.kernel_size.ints[1] % 2 = 0
            rejected == kwargs.in_channels % kwargs.groups # 0
                        \/ kwargs.out_channels % kwargs.groups # 0
            failed == /\ resolved_instance' = None
                      /\ kwargs' = kwargs
                      /\ rank_checks' = rank_checks + 1
        IN  CASE rank \notin SupportedRanks ->
                   /\ failed
                   /\ outcome'.type = "UnsupportedRankError"
                   /\ hook_calls' = hook_calls
                   /\ invoked = <<>>
              [] rank \in SupportedRanks /\ even_kernel ->
                   /\ failed
                   /\ outcome' = [type |-> "ValueError",
                                  message |-> OddKernelMessage]
                   /\ hook_calls' = hook_calls + 1
                   /\ invoked = <<>>
              [] rank \in SupportedRanks /\ ~even_kernel /\ rejected ->
                   /\ failed
                   /\ outcome'.type = "InvalidConfigurationError"
                   /\ hook_calls' = hook_calls + 1
                   /\ Len(invoked) = 1
              [] OTHER -> outcome' = NoError /\ resolved_instance' # None]_vars

C10_Witness ==
    /\ path = "specialize"
    /\ n_calls = 2
    /\ outcome.type = "InvalidConfigurationError"
    /\ resolved_instance = None
    /\ Len(factory_log) = 2
    /\ hook_calls = 2

-----------------------------------------------------------------------------
(* Claims about the resolver (specification PadSpec).                      *)

PadDone == pad_result # PadPending
DimDone == dim_result # DimPending
PerAxis == {"kernel_size", "stride", "dilation"}

\* The entry of a per-axis argument for spatial axis i.
Entry(argument, i) ==
    IF argument.tag = "tuple" THEN argument.ints[i] ELSE argument.ints[1]
\* How many spatial axes the pairing of extents and arguments reaches.
Reach(kw, m) ==
    Min({m} \cup {Len(kw[f].ints) : f \in {g \in PerAxis : kw[g].tag = "tuple"}})
\* Every sequence-valued argument has one entry per spatial axis.
OnePerAxis(kw, m) ==
    \A f \in PerAxis : kw[f].tag = "tuple" => Len(kw[f].ints) = m
AllOdd(argument) == \A j \in DOMAIN argument.ints : argument.ints[j] % 2 = 1
\* Output extent of a convolution along one axis.
OutputExtent(n, p, k, s, d) == (n + 2 * p - d * (k - 1) - 1) \div s + 1
\* The padding _pad handed to the factory.
PassedPadding == pad_result.invoked[1].kwargs.padding
\* A word of the message that stands for spatial axis i: its position among
\* the spatial axes counted from 0 or from 1, or its index in the shape.
NamesAxis(message, i) ==
    \E j \in DOMAIN message :
        message[j] \in {ToString(i - 1), ToString(i), ToString(i + 1)}

\* C4: at stride 1 and with an odd kernel size, the padding p returned by
\* _dimension_pad gives the output extent n + 2p - d(k - 1) = n.
C4_SamePaddingStride1 ==
    (DimDone /\ dim_args.stride = 1 /\ dim_args.kernel_size % 2 = 1) =>
        /\ ~dim_result.raised
        /\ dim_args.dimension + 2 * dim_result.value
             - dim_args.dilation * (dim_args.kernel_size - 1)
           = dim_args.dimension

C4_Witness ==
    /\ dim_args = DimArgs(10, 3, 1, 1)
    /\ dim_result = Return(1)

\* C5 as stated, for a scalar kernel size (the kernel size of every spatial
\* axis): with padding "same" and an even kernel size, _pad fails with an
\* error that names the offending axis, the first one, and no factory is
\* invoked.
C5_Original ==
    LET kw == pad_args.kwargs
    IN  (PadDone /\ IsSame(kw.padding) /\ kw.kernel_size.tag = "int"
           /\ kw.kernel_size.ints[1] % 2 = 0) =>
            /\ pad_result.result.raised
            /\ NamesAxis(pad_result.result.error.message, 1)
            /\ pad_result.invoked = <<>>

\* C5, amended: with padding "same" and an even kernel size on a spatial
\* axis that the pairing of extents and arguments reaches (every spatial
\* axis when each sequence has one entry per axis), _pad fails with the
\* ValueError of _dimension_pad, whose message is the same for every axis
\* and names none, before any factory is invoked: no operator is built.
C5_EvenKernelRejected ==
    LET kw == pad_args.kwargs
        m == Len(pad_args.shape) - 2
        even == {i \in 1..Reach(kw, m) : Entry(kw.kernel_size, i) % 2 = 0}
    IN  (PadDone /\ IsSame(kw.padding) /\ even # {}) =>
            /\ pad_result.result.raised
            /\ pad_result.result.error =
                 [type |-> "ValueError", message |-> OddKernelMessage]
            /\ \A i \in 1..m : ~NamesAxis(pad_result.result.error.message, i)
            /\ pad_result.invoked = <<>>
            /\ pad_result.result.value = None

C5_Witness ==
    /\ PadDone
    /\ pad_args.kwargs.padding = PyStr("same")
    /\ pad_args.kwargs.kernel_size = PyTuple(<<3, 2>>)
    /\ Len(pad_args.shape) = 4
    /\ pad_result.result.raised
    /\ pad_result.result.error.type = "ValueError"
    /\ pad_result.invoked = <<>>

\* C6: with padding "same" and kernel_size, stride and dilation all odd,
\* each a scalar or a sequence of one entry per spatial axis, the padding
\* _pad hands to the factory has an entry for every spatial axis and makes
\* the output extent floor((n + 2p - d(k - 1) - 1) / s) + 1 equal to the
\* input extent n on each; so does the padding of a call of _dimension_pad
\* with odd kernel size, stride and dilation.
C6_SamePaddingPreserves ==
    /\ LET kw == pad_args.kwargs
           dimensions == Spatial(pad_args.shape)
           m == Len(dimensions)
       IN  (PadDone /\ IsSame(kw.padding) /\ OnePerAxis(kw, m)
              /\ AllOdd(kw.kernel_size) /\ AllOdd(kw.stride)
              /\ AllOdd(kw.dilation)) =>
               /\ ~pad_result.result.raised
               /\ Len(pad_result.invoked) = 1
               /\ PassedPadding.tag = "tuple"
               /\ Len(PassedPadding.ints) = m
               /\ \A i \in 1..m :
                    OutputExtent(dimensions[i], PassedPadding.ints[i],
                                 Entry(kw.kernel_size, i), Entry(kw.stride, i),
                                 Entry(kw.dilation, i)) = dimensions[i]
    /\ (DimDone /\ dim_args.kernel_size % 2 = 1 /\ dim_args.stride % 2 = 1
          /\ dim_args.dilation % 2 = 1) =>
           /\ ~dim_result.raised
           /\ OutputExtent(dim_args.dimension, dim_result.value,
                           dim_args.kernel_size, dim_args.stride,
                           dim_args.dilation) = dim_args.dimension

C6_Witness ==
    /\ PadDone
    /\ pad_args.kwargs.padding = PyStr("same")
    /\ pad_args.kwargs.kernel_size = PyTuple(<<3, 1>>)
    /\ pad_args.kwargs.stride = PyInt(3)
    /\ pad_args.kwargs.dilation = PyInt(1)
    /\ pad_args.shape = <<2, 3, 2, 1>>
    /\ PassedPadding = PyTuple(<<3, 1>>)

\* C7 as stated: whenever _pad resolves "same" padding for an input of rank
\* r, the padding handed to the factory is a tuple of r - 2 non-negative
\* integers, whatever scalars or sequences were given.
C7_Original ==
    (PadDone /\ IsSame(pad_args.kwargs.padding) /\ ~pad_result.result.raised) =>
        /\ PassedPadding.tag = "tuple"
        /\ \A i \in DOMAIN PassedPadding.ints : PassedPadding.ints[i] >= 0
        /\ Len(PassedPadding.ints) = Len(pad_args.shape) - 2

\* C7, amended: whenever _pad resolves "same" padding for an input of rank
\* r, the padding handed to the factory is a tuple of non-negative integers
\* with as many entries as the shortest of the r - 2 spatial extents and the
\* sequences given for kernel_size, stride and dilation: exactly r - 2 when
\* every sequence given has at least r - 2 entries.
C7_PaddingShape ==
    LET kw == pad_args.kwargs
        m == Len(pad_args.shape) - 2
    IN  (PadDone /\ IsSame(kw.padding) /\ ~pad_result.result.raised) =>
            /\ PassedPadding.tag = "tuple"
            /\ \A i \in DOMAIN PassedPadding.ints : PassedPadding.ints[i] >= 0
            /\ Len(PassedPadding.ints) = Reach(kw, m)
            /\ (\A f \in PerAxis : kw[f].tag = "tuple" => Len(kw[f].ints) >= m)
                 => Len(PassedPadding.ints) = m

C7_Witness ==
    /\ PadDone
    /\ pad_args.kwargs.padding = PyStr("same")
    /\ pad_args.kwargs.kernel_size = PyInt(3)
    /\ pad_args.kwargs.stride = PyTuple(<<1, 2>>)
    /\ Len(pad_args.shape) = 4
    /\ ~pad_result.result.raised
    /\ Len(PassedPadding.ints) = 2

\* C8: _pad hands the factory the class it was given and the kwargs of the
\* declaration, changed in the padding entry alone, and in that one exactly
\* when the padding is a string equal to "same" ignoring case: then it is a
\* tuple of integers; any other padding (another string, an integer, a
\* tuple) reaches the factory as it was given.
C8_Frame ==
    LET kw == pad_args.kwargs
    IN  PadDone =>
          \A n \in DOMAIN pad_result.invoked :
            LET call == pad_result.invoked[n]
            IN  /\ call.class = pad_args.inner_class
                /\ DOMAIN call.kwargs = DOMAIN kw
                /\ \A f \in DOMAIN kw \ {"padding"} : call.kwargs[f] = kw[f]
                /\ IF IsSame(kw.padding)
                   THEN call.kwargs.padding.tag = "tuple"
                   ELSE call.kwargs.padding = kw.padding

C8_Witness ==
    /\ PadDone
    /\ pad_args.kwargs.padding = PyStr("SAME")
    /\ pad_args.kwargs.kernel_size = PyTuple(<<3, 1>>)
    /\ Len(pad_args.shape) = 4
    /\ Len(pad_result.invoked) = 1
    /\ PassedPadding = PyTuple(<<1, 0>>)
    /\ pad_result.invoked[1].kwargs.kernel_size = PyTuple(<<3, 1>>)

\* What _pad resolved the padding to: the error it raised, or the padding
\* it handed to the factory.
Resolved(r) ==
    IF r.result.raised
    THEN [raised |-> TRUE, error |-> r.result.error, padding |-> PyInt(0)]
    ELSE [raised |-> FALSE, error |-> NoError,
          padding |-> r.invoked[1].kwargs.padding]

\* C9: for an input with m spatial axes, a scalar kernel_size, stride or
\* dilation v resolves "same" padding to what the tuple of m entries v
\* resolves it to.
C9_BroadcastEquivalence ==
    LET kw == pad_args.kwargs
        m == Len(pad_args.shape) - 2
    IN  (PadDone /\ IsSame(kw.padding)) =>
          \A f \in PerAxis :
            kw[f].tag = "int" =>
              Resolved(pad_result) =
                Resolved(_pad(pad_args.shape, pad_args.inner_class,
                    [kw EXCEPT ![f] = PyTuple([i \in 1..m |-> kw[f].ints[1]])]))

C9_Witness ==
    /\ PadDone
    /\ pad_args.kwargs.padding = PyStr("same")
    /\ pad_args.kwargs.kernel_size = PyInt(3)
    /\ pad_args.kwargs.stride = PyInt(1)
    /\ pad_args.kwargs.dilation = PyInt(1)
    /\ pad_args.shape = <<2, 3, 1, 2>>
    /\ PassedPadding = PyTuple(<<1, 1>>)
    /\ Resolved(_pad(pad_args.shape, pad_args.inner_class,
           [pad_args.kwargs EXCEPT !.kernel_size = PyTuple(<<3, 3>>)])).padding
         = PyTuple(<<1, 1>>)

\* p = math.ceil(x / 2): the least integer whose double is not below x.
IsCeilOfHalf(p, x) == 2 * p >= x /\ 2 * (p - 1) < x
\* dimension * stride - dimension + dilation * (kernel_size - 1)
Numerator(n, k, s, d) == n * s - n + d * (k - 1)

\* C12: for an odd kernel size _dimension_pad returns, without an error,
\* exactly ceil((dimension * stride - dimension + dilation * (kernel_size
\* - 1)) / 2); and every entry of the padding _pad hands to the factory is
\* that value for the extent, kernel size, stride and dilation of its own
\* spatial axis.
C12_PaddingFormula ==
    /\ (DimDone /\ dim_args.kernel_size % 2 = 1) =>
           /\ ~dim_result.raised
           /\ IsCeilOfHalf(dim_result.value,
                  Numerator(dim_args.dimension, dim_args.kernel_size,
                            dim_args.stride, dim_args.dilation))
    /\ LET kw == pad_args.kwargs
           dimensions == Spatial(pad_args.shape)
       IN  (PadDone /\ IsSame(kw.padding) /\ ~pad_result.result.raised) =>
              \A i \in DOMAIN PassedPadding.ints :
                  IsCeilOfHalf(PassedPadding.ints[i],
                      Numerator(dimensions[i], Entry(kw.kernel_size, i),
                                Entry(kw.stride, i), Entry(kw.dilation, i)))

C12_Witness ==
    /\ PadDone
    /\ pad_args.kwargs.padding = PyStr("same")
    /\ pad_args.kwargs.kernel_size = PyTuple(<<3, 1>>)
    /\ pad_args.kwargs.stride = PyInt(2)
    /\ pad_args.kwargs.dilation = PyInt(1)
    /\ pad_args.shape = <<2, 3, 1, 2>>
    /\ PassedPadding = PyTuple(<<2, 1>>)

\* How many entries a per-axis argument has once expanded for m spatial
\* axes.
ExpandedLen(argument, m) ==
    IF argument.tag = "tuple" THEN Len(argument.ints) ELSE m
\* A sequence was given whose length is not the number of spatial axes.
Mismatched(kw, m) ==
    \E f \in PerAxis : kw[f].tag = "tuple" /\ Len(kw[f].ints) # m

\* C14: when kernel_size, stride or dilation is a sequence whose length is
\* not the number m of spatial axes and the padding is "same", _pad looks
\* at the first n entries only, n the least of m and the lengths of the
\* three expanded arguments: it raises exactly when one of the first n
\* kernel sizes is even, and never because of the lengths or of an entry
\* past n (an even kernel size there included); otherwise it invokes the
\* factory once, with a padding of n entries.
C14_SilentTruncation ==
    LET kw == pad_args.kwargs
        m == Len(pad_args.shape) - 2
        n == Min({m, ExpandedLen(kw.kernel_size, m), ExpandedLen(kw.stride, m),
                  ExpandedLen(kw.dilation, m)})
        even == \E i \in 1..n : Entry(kw.kernel_size, i) % 2 = 0
    IN  (PadDone /\ IsSame(kw.padding) /\ Mismatched(kw, m)) =>
            /\ pad_result.result.raised <=> even
            /\ pad_result.result.raised =>
                  pad_result.result.error.type = "ValueError"
            /\ ~pad_result.result.raised =>
                  /\ Len(pad_result.invoked) = 1
                  /\ PassedPadding.tag = "tuple"
                  /\ Len(PassedPadding.ints) = n

\* An even kernel size past the entries the pairing reaches went unnoticed.
C14_Witness ==
    /\ PadDone
    /\ pad_args.kwargs.padding = PyStr("same")
    /\ pad_args.kwargs.kernel_size = PyTuple(<<3, 2>>)
    /\ pad_args.shape = <<2, 3, 2>>
    /\ ~pad_result.result.raised
    /\ PassedPadding.tag = "tuple"
    /\ Len(PassedPadding.ints) = 1

-----------------------------------------------------------------------------
(* Claims about MPoly (specification PolySpec).                            *)

PolyDone == poly_result # PolyPending

\* C11 as stated: MPoly with an empty list of modules acts as the identity,
\* its forward returns the input and raises no error; with one module F it
\* returns inputs + F(inputs), element by element.
C11_Original ==
    PolyDone =>
        /\ Len(poly_modules) = 0 =>
              /\ ~poly_result.raised
              /\ poly_result.value = poly_inputs
        /\ Len(poly_modules) = 1 =>
              /\ ~poly_result.raised
              /\ \A i \in 1..TensorSize :
                    poly_result.value[i] =
                      poly_inputs[i] + poly_modules[1].weight * poly_inputs[i]
                                     + poly_modules[1].bias

\* The forward call of an MPoly without modules has ended, with an
\* IndexError.
C11_Witness ==
    /\ PolyDone
    /\ poly_modules = <<>>
    /\ poly_inputs = <<1, 0>>
    /\ poly_result.raised
    /\ poly_result.error.type = "IndexError"

-----------------------------------------------------------------------------
(* Claims about forward calls in flight together (specification RaceSpec). *)

AllDone == \A t \in Threads : pc[t] = "done"
SawAbsent == {t \in Threads : t_saw_absent[t]}
\* The calls that found no delegate and whose hook returned an operator.
Builders == {t \in Threads : t_built[t] # None}
\* An operator as a factory returns it: of a dimensionality, and with its
\* padding resolved.
FullyBuilt(instance) ==
    /\ instance # None
    /\ instance.class \in {1, 2, 3}
    /\ ~IsSame(instance.kwargs.padding)

====
